---- MODULE Spec2Model ----
(***************************************************************************)
(* A model of the accessibility regression checker: diff.js (fingerprint,  *)
(* buildFingerprintMap, countByImpact, main), the regression gate of       *)
(* comment.js, the loop of scan.js and the loop and the comment cleanup of *)
(* auto-fix.js.  Scan documents are nested as in the JSON the scanner      *)
(* writes: pages -> violations -> nodes.  A JavaScript Map is a sequence   *)
(* of records in insertion order, each record carrying its own key in the  *)
(* field fingerprint.                                                      *)
(***************************************************************************)
EXTENDS Integers, Sequences, FiniteSets, TLC

VARIABLES
    args,                 \* diff.js: "ok" when --baseline and --head are given, else "missing"
    baselineFile,         \* diff.js: the parsed content of the baseline scan file
    headFile,             \* diff.js: the parsed content of the head scan file
    envFailOnRegression,  \* the FAIL_ON_REGRESSION variable of the process environment
    pc,                   \* diff.js: position in main
    baselineMap,          \* diff.js: Map fingerprint -> record of the baseline scan
    headMap,              \* diff.js: Map fingerprint -> record of the head scan
    newViolations,        \* diff.js: main's list newViolations
    resolvedViolations,   \* diff.js: main's list resolvedViolations
    unchangedViolations,  \* diff.js: main's list unchangedViolations
    regression,           \* diff.js: main's flag regression
    outputFile,           \* the diff report on disk: <<>> when absent, <<report>> when written
    exitCode,             \* diff.js: exit status: <<>> while running, <<status>> once exited
    githubEnv,            \* comment.js: TRUE when GITHUB_TOKEN, PR_NUMBER and GITHUB_REPOSITORY are set
    cpc,                  \* comment.js: position in main
    commentDiff,          \* comment.js: main's diff, <<>> before the file is read
    listed,               \* comment.js: the listed comments deleteExistingComments has yet to visit
    comments,             \* the comments of the pull request, oldest first
    commentExit,          \* comment.js: exit status: <<>> while running, <<status>> once exited
    fpIn,                 \* fingerprint harness: a pair of occurrences
    fpOut,                \* fingerprint harness: their fingerprints, <<>> before the call
    clock,                \* the system clock, in milliseconds since the first run started
    firstRun,             \* repeated run: what the previous run of diff.js left, <<>> before it
    urls,                 \* scan.js: the URL paths of --urls, in order
    engine,               \* what loading and analysing each entry of urls will give, in order
    impactLevel,          \* scan.js: the value of --impactLevel, "" when not given
    spc,                  \* scan.js: position in main
    todo,                 \* scan.js: the URL paths the loop has yet to visit
    pages,                \* scan.js: main's list pages
    errors,               \* scan.js: main's list errors
    scanFile,             \* the scan output on disk: <<>> when absent, <<output>> when written
    scanExit,             \* scan.js: exit status: <<>> while running, <<status>> once exited
    apiKey,               \* auto-fix.js: TRUE when OPENROUTER_API_KEY is set
    projectFiles,         \* the files under PR_PROJECT_PATH: path -> content
    fxpc,                 \* auto-fix.js: position in main
    fixDiff,              \* auto-fix.js: main's diff, <<>> before the file is read
    pagesToFix,           \* auto-fix.js: the page paths the loop has yet to visit
    fixedFiles,           \* auto-fix.js: main's list fixedFiles
    skippedUrls,          \* auto-fix.js: main's list skippedUrls
    fixExit               \* auto-fix.js: exit status: <<>> while running, <<status>> once exited

vars == <<args, baselineFile, headFile, envFailOnRegression, pc, baselineMap, headMap,
          newViolations, resolvedViolations, unchangedViolations, regression,
          outputFile, exitCode, githubEnv, cpc, commentDiff, listed, comments,
          commentExit, fpIn, fpOut, clock, firstRun,
          urls, engine, impactLevel, spc, todo, pages, errors, scanFile, scanExit,
          apiKey, projectFiles, fxpc, fixDiff, pagesToFix, fixedFiles, skippedUrls, fixExit>>

diffVars == <<args, baselineFile, headFile, pc, baselineMap, headMap,
              newViolations, resolvedViolations, unchangedViolations, regression,
              outputFile, exitCode>>

commentVars == <<githubEnv, cpc, commentDiff, listed, comments, commentExit>>

fpVars == <<fpIn, fpOut>>

twiceVars == <<clock, firstRun>>

scanVars == <<urls, engine, impactLevel, spc, todo, pages, errors, scanFile, scanExit>>

fixVars == <<apiKey, projectFiles, fxpc, fixDiff, pagesToFix, fixedFiles, skippedUrls, fixExit>>

----------------------------------------------------------------------------
(* Bounds of the model *)

\* occurrences per scan document in the diff specification
MaxOcc == 2

\* comments on the pull request before comment.js runs
MaxComments == 2

\* the clock ticks at most this many times
MaxClock == 2

\* the scanner is given at most this many URL paths
MaxUrls == 2

----------------------------------------------------------------------------
(* Sequence helpers *)

RECURSIVE SeqsUpTo(_, _)
SeqsUpTo(S, n) ==
    IF n = 0 THEN {<<>>}
    ELSE LET shorter == SeqsUpTo(S, n - 1)
         IN  shorter \cup {Append(s, x) : s \in {t \in shorter : Len(t) = n - 1}, x \in S}

Last(s) == s[Len(s)]

ButLast(s) == SubSeq(s, 1, Len(s) - 1)

Range(s) == {s[i] : i \in DOMAIN s}

\* Array.prototype.join
RECURSIVE join(_, _)
join(arr, sep) ==
    IF Len(arr) = 0 THEN ""
    ELSE IF Len(arr) = 1 THEN arr[1]
    ELSE join(ButLast(arr), sep) \o sep \o Last(arr)

----------------------------------------------------------------------------
(* The fingerprint *)

\* the value of a property the JSON document does not have
undefined == "#undefined"

\* the conversion of a value inside a template string
templateString(v) == IF v = undefined THEN "undefined" ELSE v

\* crypto.createHash('sha1').update(s).digest('hex'): the SHA-1 digests of the
\* markup strings of the model, as computed by SHA-1
sha1Hex(s) ==
    CASE s = ""                 -> "da39a3ee5e6b4b0d3255bfef95601890afd80709"
      [] s = "<img src=a>"      -> "fd250d7cbd39c62fb789aeaf3a0fb8e87f6e079f"
      [] s = "<img  src=a>"     -> "020bd109804ad3020c5b02c8de13da0aa46ab612"
      [] s = "<img src=b>"      -> "880448b3b95b9ff378bd71d3fc889a16a2a15ff0"
      [] s = "<img src=a id=b>" -> "7fd5d60fb4c8e726c9aef5798fae1d1e6038a72e"
      [] s = "<img id=b src=a>" -> "4bed78b8d23ed0dc48208f89b2a5f46f5c678853"

\* the markup token of an earlier version of diff.js: the length of the markup
htmlLength(html) == ToString(Len(html))

\* the markup token: the first 12 hex digits of the SHA-1 of the markup
htmlHash(html) == SubSeq(sha1Hex(IF html = undefined THEN "" ELSE html), 1, 12)

fingerprintNoPage(violationId, urlPath, node) ==
    templateString(violationId) \o "::" \o join(node.target, ">")
        \o "::" \o htmlHash(node.html)

fingerprint(violationId, urlPath, node) ==
    templateString(violationId) \o "::" \o templateString(urlPath)
        \o "::" \o join(node.target, ">") \o "::" \o htmlHash(node.html)

----------------------------------------------------------------------------
(* The index *)

mapHas(map, fp) == \E i \in DOMAIN map : map[i].fingerprint = fp

mapKeys(map) == {map[i].fingerprint : i \in DOMAIN map}

\* the record labelled as the first version of diff.js keyed it: by rule id
\* and selector path
mapRecordRuleAndTarget(violation, page, node, fp) ==
    [id             |-> violation.id,
     impact         |-> violation.impact,
     description    |-> violation.description,
     helpUrl        |-> violation.helpUrl,
     tags           |-> violation.tags,
     urlPath        |-> page.urlPath,
     target         |-> node.target,
     html           |-> node.html,
     failureSummary |-> node.failureSummary,
     fingerprint    |-> templateString(violation.id) \o "::" \o join(node.target, ">")]

mapRecord(violation, page, node, fp) ==
    [id             |-> violation.id,
     impact         |-> violation.impact,
     description    |-> violation.description,
     helpUrl        |-> violation.helpUrl,
     tags           |-> violation.tags,
     urlPath        |-> page.urlPath,
     target         |-> node.target,
     html           |-> node.html,
     failureSummary |-> node.failureSummary,
     fingerprint    |-> fp]

\* Map.prototype.set: a new key is added last, a known key keeps its place
mapSet(map, fp, record) ==
    IF mapHas(map, fp)
    THEN [i \in DOMAIN map |-> IF map[i].fingerprint = fp THEN record ELSE map[i]]
    ELSE Append(map, record)

\* the loop without its guard: a later occurrence overwrites the record
RECURSIVE indexNodesLastWins(_, _, _, _)
indexNodesLastWins(map, page, violation, i) ==
    IF i > Len(violation.nodes) THEN map
    ELSE LET node == violation.nodes[i]
             fp   == fingerprint(violation.id, page.urlPath, node)
         IN  indexNodesLastWins(mapSet(map, fp, mapRecord(violation, page, node, fp)),
                                page, violation, i + 1)

\* the innermost loop of buildFingerprintMap, from node i of the violation on
RECURSIVE indexNodes(_, _, _, _)
indexNodes(map, page, violation, i) ==
    IF i > Len(violation.nodes) THEN map
    ELSE LET node == violation.nodes[i]
             fp   == fingerprint(violation.id, page.urlPath, node)
         IN  IF mapHas(map, fp)
             THEN indexNodes(map, page, violation, i + 1)
             ELSE indexNodes(mapSet(map, fp, mapRecord(violation, page, node, fp)),
                             page, violation, i + 1)

\* the middle loop of buildFingerprintMap, from violation j of the page on
RECURSIVE indexViolations(_, _, _)
indexViolations(map, page, j) ==
    IF j > Len(page.violations) THEN map
    ELSE indexViolations(indexNodes(map, page, page.violations[j], 1), page, j + 1)

\* the outer loop of buildFingerprintMap, from page k of the scan on
RECURSIVE indexPages(_, _, _)
indexPages(map, scanResult, k) ==
    IF k > Len(scanResult.pages) THEN map
    ELSE indexPages(indexViolations(map, scanResult.pages[k], 1), scanResult, k + 1)

buildFingerprintMap(scanResult) == indexPages(<<>>, scanResult, 1)

\* scanResult.pages can be iterated: the file was read and parsed and the
\* document has the property pages
hasPages(scanResult) == "pages" \in DOMAIN scanResult

\* A JavaScript number that may be NaN: <<n>> for the number n, <<>> for NaN
\* (which JSON.stringify writes as null).
NaN == <<>>

\* v++ on a property value
increment(v) == IF v = NaN THEN NaN ELSE <<v[1] + 1>>

\* the function-valued properties an object literal inherits from
\* Object.prototype: counts[key] is not undefined for them, and ++ on a
\* function gives NaN
ObjectPrototypeKeys ==
    {"constructor", "toString", "valueOf", "hasOwnProperty", "isPrototypeOf",
     "propertyIsEnumerable", "toLocaleString"}

\* countByImpact's loop, from record i of the map on
RECURSIVE countFrom(_, _, _)
countFrom(counts, map, i) ==
    IF i > Len(map) THEN counts
    ELSE LET impact == templateString(map[i].impact)
         IN  IF impact \in DOMAIN counts
             THEN countFrom([counts EXCEPT ![impact] = increment(@)], map, i + 1)
             ELSE IF impact \in ObjectPrototypeKeys
                  THEN countFrom(counts @@ (impact :> NaN), map, i + 1)
                  ELSE countFrom(counts @@ (impact :> <<1>>), map, i + 1)

countByImpact(map) ==
    countFrom([t \in {"critical", "serious", "moderate", "minor"} |-> <<0>>], map, 1)

----------------------------------------------------------------------------
(* The three-way partition and the report of diff.js *)

\* the matching by the whole record instead of its fingerprint
newViolationsByWholeRecord(baseMap, hdMap) ==
    SelectSeq(hdMap, LAMBDA v : ~\E i \in DOMAIN baseMap : baseMap[i] = v)

\* the new violations the report on disk does not list yet
newViolationsNotYetReported(baseMap, hdMap) ==
    SelectSeq(hdMap, LAMBDA v :
        /\ ~mapHas(baseMap, v.fingerprint)
        /\ ~(/\ outputFile # <<>>
              /\ \E i \in DOMAIN outputFile[1].newViolations :
                    outputFile[1].newViolations[i].fingerprint = v.fingerprint))

\* the matching of the first version of diff.js: by rule id and selector path
newViolationsByRuleAndTarget(baseMap, hdMap) ==
    SelectSeq(hdMap, LAMBDA v :
        ~\E i \in DOMAIN baseMap : baseMap[i].id = v.id /\ baseMap[i].target = v.target)

newViolationsOf(baseMap, hdMap) ==
    SelectSeq(hdMap, LAMBDA v : ~mapHas(baseMap, v.fingerprint))

resolvedViolationsByRuleAndTarget(baseMap, hdMap) ==
    SelectSeq(baseMap, LAMBDA v :
        ~\E i \in DOMAIN hdMap : hdMap[i].id = v.id /\ hdMap[i].target = v.target)

resolvedViolationsOf(baseMap, hdMap) ==
    SelectSeq(baseMap, LAMBDA v : ~mapHas(hdMap, v.fingerprint))

unchangedViolationsUnfiltered(baseMap, hdMap) == hdMap

\* the matched records taken from the baseline index
unchangedViolationsFromBaseline(baseMap, hdMap) ==
    SelectSeq(baseMap, LAMBDA v : mapHas(hdMap, v.fingerprint))

unchangedViolationsOf(baseMap, hdMap) ==
    SelectSeq(hdMap, LAMBDA v : mapHas(baseMap, v.fingerprint))

regressionOnAnyChange(newV, resolvedV) == Len(newV) > 0 \/ Len(resolvedV) > 0

regressionOf(newV, resolvedV) == Len(newV) > 0

\* Date.prototype.toISOString of the clock value
toISOString(t) == "2024-01-01T00:00:00.00" \o ToString(t) \o "Z"

\* the report with one total copied from the other
diffReportHeadTotalFromBaseline(baseMap, hdMap, newV, resolvedV, unchangedV, regr, now) ==
    [generatedAt         |-> toISOString(now),
     regression          |-> regr,
     summary             |-> [baselineTotal      |-> Len(baseMap),
                              headTotal          |-> Len(baseMap),
                              newViolations      |-> Len(newV),
                              resolvedViolations |-> Len(resolvedV),
                              unchanged          |-> Len(unchangedV)],
     impactDelta         |-> [baseline |-> countByImpact(baseMap),
                              head     |-> countByImpact(hdMap)],
     newViolations       |-> newV,
     resolvedViolations  |-> resolvedV,
     unchangedViolations |-> unchangedV]

diffReport(baseMap, hdMap, newV, resolvedV, unchangedV, regr, now) ==
    [generatedAt         |-> toISOString(now),
     regression          |-> regr,
     summary             |-> [baselineTotal      |-> Len(baseMap),
                              headTotal          |-> Len(hdMap),
                              newViolations      |-> Len(newV),
                              resolvedViolations |-> Len(resolvedV),
                              unchanged          |-> Len(unchangedV)],
     impactDelta         |-> [baseline |-> countByImpact(baseMap),
                              head     |-> countByImpact(hdMap)],
     newViolations       |-> newV,
     resolvedViolations  |-> resolvedV,
     unchangedViolations |-> unchangedV]

exitStatusAlwaysZero(regr) == 0

\* the exit status main ends with
exitStatus(regr) == IF regr THEN 1 ELSE 0

----------------------------------------------------------------------------
(* Scan documents: the inputs of diff.js *)

\* one failing element as the scanner reports it, with the rule and the page
\* it belongs to
occurrenceWith(id, impact, urlPath, target, html, failureSummary) ==
    [id |-> id, impact |-> impact, urlPath |-> urlPath, target |-> target, html |-> html,
     failureSummary |-> failureSummary]

occurrence(id, impact, urlPath, target, html) ==
    occurrenceWith(id, impact, urlPath, target, html, "Fix any of the following")

scanNode(o) ==
    [target |-> o.target, html |-> o.html, failureSummary |-> o.failureSummary]

scanViolation(o) ==
    [id          |-> o.id,
     impact      |-> o.impact,
     description |-> "Ensures " \o templateString(o.id),
     helpUrl     |-> "https://dequeuniversity.com/rules/axe/" \o templateString(o.id),
     tags        |-> <<"wcag2a">>,
     nodes       |-> <<scanNode(o)>>]

scanPage(o) == [urlPath |-> o.urlPath, violations |-> <<scanViolation(o)>>]

\* The scan document with one more occurrence: the scanner writes one page
\* entry per url path and the rule engine one violation per failing rule, so
\* the occurrence joins the last violation when rule and page are the same,
\* the last page when only the page is the same, and a new page otherwise.
addOccurrence(doc, o) ==
    LET docPages == doc.pages
    IN  IF Len(docPages) > 0 /\ Last(docPages).urlPath = o.urlPath
        THEN LET page == Last(docPages)
                 vs   == page.violations
             IN  IF Len(vs) > 0 /\ Last(vs).id = o.id /\ Last(vs).impact = o.impact
                 THEN [pages |-> Append(ButLast(docPages),
                          [page EXCEPT !.violations =
                              Append(ButLast(vs),
                                     [Last(vs) EXCEPT !.nodes = Append(@, scanNode(o))])])]
                 ELSE [pages |-> Append(ButLast(docPages),
                          [page EXCEPT !.violations = Append(vs, scanViolation(o))])]
        ELSE [pages |-> Append(docPages, scanPage(o))]

RECURSIVE scanDocument(_)
scanDocument(occs) ==
    IF Len(occs) = 0 THEN [pages |-> <<>>]
    ELSE addOccurrence(scanDocument(ButLast(occs)), Last(occs))

\* the occurrences the scan documents of the diff specification are made of:
\* one image on the page "/" with its markup as it is, reformatted, and
\* replaced; the same image on the page "/about"; a form field on "/about"
DiffOccurrences ==
    {occurrence("image-alt", "critical", "/", <<"main", "img">>, h) :
        h \in {"<img src=a>", "<img  src=a>", "<img src=b>"}}
    \cup {occurrence("image-alt", "critical", "/about", <<"main", "img">>, "<img src=a>"),
          occurrence("label", "moderate", "/about", <<"form>input">>, "")}

ScanDocuments(n) == {scanDocument(occs) : occs \in SeqsUpTo(DiffOccurrences, n)}

\* the occurrences of the documents with irregular content: one image
\* reported twice with different remediation summaries, the same image with a
\* severity outside the four tiers, an occurrence without rule id, one
\* without page path, and one whose severity is the name of an inherited
\* property
MetaOccurrences ==
    {occurrenceWith("image-alt", "critical", "/", <<"main", "img">>, "<img src=a>",
                    "Fix any of the following"),
     occurrenceWith("image-alt", "critical", "/", <<"main", "img">>, "<img src=a>",
                    "Fix all of the following"),
     occurrenceWith("image-alt", "blocker", "/", <<"main", "img">>, "<img src=a>",
                    "Fix any of the following"),
     occurrenceWith(undefined, "minor", "/", <<"main", "img">>, "<img src=b>",
                    "Fix any of the following"),
     occurrenceWith("label", "moderate", undefined, <<"form>input">>, "",
                    "Fix any of the following"),
     occurrenceWith("label", "constructor", "/about", <<"form>input">>, "",
                    "Fix any of the following")}

MetaDocuments(n) == {scanDocument(occs) : occs \in SeqsUpTo(MetaOccurrences, n)}

\* a scan file whose document has no pages
NoPagesDocument == [errors |-> <<>>]

\* a scan file that cannot be read or parsed
UnreadableFile == [error |-> "ENOENT"]

\* the files diff.js is started on
InputFiles(n) == ScanDocuments(n) \cup {NoPagesDocument, UnreadableFile}

EnvValues == {"unset", "true", "false"}

----------------------------------------------------------------------------
(* diff.js *)

NoReport == <<>>

DiffIdle ==
    /\ pc = "start"
    /\ baselineMap = <<>>
    /\ headMap = <<>>
    /\ newViolations = <<>>
    /\ resolvedViolations = <<>>
    /\ unchangedViolations = <<>>
    /\ regression = FALSE
    /\ exitCode = <<>>

CommentIdle ==
    /\ githubEnv = TRUE
    /\ cpc = "start"
    /\ commentDiff = <<>>
    /\ listed = <<>>
    /\ comments = <<>>
    /\ commentExit = <<>>

TwiceIdle ==
    /\ clock = 0
    /\ firstRun = <<>>

ScanIdle ==
    /\ urls = <<>>
    /\ engine = <<>>
    /\ impactLevel = ""
    /\ spc = "start"
    /\ todo = <<>>
    /\ pages = <<>>
    /\ errors = <<>>
    /\ scanFile = <<>>
    /\ scanExit = <<>>

FixIdle ==
    /\ apiKey = FALSE
    /\ projectFiles = <<>>
    /\ fxpc = "start"
    /\ fixDiff = <<>>
    /\ pagesToFix = <<>>
    /\ fixedFiles = <<>>
    /\ skippedUrls = <<>>
    /\ fixExit = <<>>

FpIdle ==
    /\ fpIn = <<>>
    /\ fpOut = <<>>

\* diff.js is started on two scan files, or without its arguments
Init ==
    /\ DiffIdle
    /\ args \in {"ok", "missing"}
    /\ baselineFile \in InputFiles(MaxOcc)
    /\ headFile \in InputFiles(MaxOcc)
    /\ args = "missing" => baselineFile = scanDocument(<<>>) /\ headFile = scanDocument(<<>>)
    /\ envFailOnRegression \in {"true", "false"}
    /\ outputFile = NoReport
    /\ CommentIdle
    /\ FpIdle
    /\ TwiceIdle
    /\ ScanIdle
    /\ FixIdle

\* lines 25-28: without --baseline or --head the usage is printed
DiffUsage ==
    /\ pc = "start"
    /\ args = "missing"
    /\ exitCode' = <<1>>
    /\ pc' = "exited"
    /\ UNCHANGED <<args, baselineFile, headFile, baselineMap, headMap, newViolations,
                   resolvedViolations, unchangedViolations, regression, outputFile>>

\* the failure caught and reported as an empty diff
DiffThrowWritesEmptyReport ==
    /\ pc = "start"
    /\ args = "ok"
    /\ ~(hasPages(baselineFile) /\ hasPages(headFile))
    /\ exitCode' = <<1>>
    /\ outputFile' = <<[regression |-> FALSE]>>
    /\ pc' = "threw"
    /\ UNCHANGED <<args, baselineFile, headFile, baselineMap, headMap, newViolations,
                   resolvedViolations, unchangedViolations, regression>>

\* lines 98-102: readFileSync, JSON.parse or the loop over scanResult.pages
\* throws; nothing catches it and the process ends with status 1
DiffThrow ==
    /\ pc = "start"
    /\ args = "ok"
    /\ ~(hasPages(baselineFile) /\ hasPages(headFile))
    /\ exitCode' = <<1>>
    /\ pc' = "threw"
    /\ UNCHANGED <<args, baselineFile, headFile, baselineMap, headMap, newViolations,
                   resolvedViolations, unchangedViolations, regression, outputFile>>

\* lines 98-102: both files are read and parsed, both maps are built
DiffIndex ==
    /\ pc = "start"
    /\ args = "ok"
    /\ hasPages(baselineFile)
    /\ hasPages(headFile)
    /\ baselineMap' = buildFingerprintMap(baselineFile)
    /\ headMap' = buildFingerprintMap(headFile)
    /\ pc' = "indexed"
    /\ UNCHANGED <<args, baselineFile, headFile, newViolations, resolvedViolations,
                   unchangedViolations, regression, outputFile, exitCode>>

\* lines 104-118: the three lists and the regression flag
DiffPartition ==
    /\ pc = "indexed"
    /\ newViolations' = newViolationsOf(baselineMap, headMap)
    /\ resolvedViolations' = resolvedViolationsOf(baselineMap, headMap)
    /\ unchangedViolations' = unchangedViolationsOf(baselineMap, headMap)
    /\ regression' = regressionOf(newViolations', resolvedViolations')
    /\ pc' = "partitioned"
    /\ UNCHANGED <<args, baselineFile, headFile, baselineMap, headMap, outputFile, exitCode>>

\* lines 120-139: the report is assembled and written
DiffWrite ==
    /\ pc = "partitioned"
    /\ outputFile' = <<diffReport(baselineMap, headMap, newViolations, resolvedViolations,
                                  unchangedViolations, regression, clock)>>
    /\ pc' = "written"
    /\ UNCHANGED <<args, baselineFile, headFile, baselineMap, headMap, newViolations,
                   resolvedViolations, unchangedViolations, regression, exitCode>>

\* lines 147-159: process.exit(1) on a regression, process.exit(0) otherwise
DiffExit ==
    /\ pc = "written"
    /\ exitCode' = <<exitStatus(regression)>>
    /\ pc' = "exited"
    /\ UNCHANGED <<args, baselineFile, headFile, baselineMap, headMap, newViolations,
                   resolvedViolations, unchangedViolations, regression, outputFile>>

Next ==
    \/ DiffUsage /\ UNCHANGED <<envFailOnRegression, commentVars, fpVars, twiceVars, scanVars, fixVars>>
    \/ DiffThrow /\ UNCHANGED <<envFailOnRegression, commentVars, fpVars, twiceVars, scanVars, fixVars>>
    \/ DiffIndex /\ UNCHANGED <<envFailOnRegression, commentVars, fpVars, twiceVars, scanVars, fixVars>>
    \/ DiffPartition /\ UNCHANGED <<envFailOnRegression, commentVars, fpVars, twiceVars, scanVars, fixVars>>
    \/ DiffWrite /\ UNCHANGED <<envFailOnRegression, commentVars, fpVars, twiceVars, scanVars, fixVars>>
    \/ DiffExit /\ UNCHANGED <<envFailOnRegression, commentVars, fpVars, twiceVars, scanVars, fixVars>>

Spec == Init /\ [][Next]_vars

\* diff.js started with both arguments on documents with irregular content
InitMeta ==
    /\ DiffIdle
    /\ args = "ok"
    /\ baselineFile \in MetaDocuments(MaxOcc)
    /\ headFile \in MetaDocuments(MaxOcc)
    /\ envFailOnRegression = "unset"
    /\ outputFile = NoReport
    /\ CommentIdle
    /\ FpIdle
    /\ TwiceIdle
    /\ ScanIdle
    /\ FixIdle

NextMeta ==
    \/ DiffIndex /\ UNCHANGED <<envFailOnRegression, commentVars, fpVars, twiceVars, scanVars, fixVars>>
    \/ DiffPartition /\ UNCHANGED <<envFailOnRegression, commentVars, fpVars, twiceVars, scanVars, fixVars>>
    \/ DiffWrite /\ UNCHANGED <<envFailOnRegression, commentVars, fpVars, twiceVars, scanVars, fixVars>>
    \/ DiffExit /\ UNCHANGED <<envFailOnRegression, commentVars, fpVars, twiceVars, scanVars, fixVars>>

SpecMeta == InitMeta /\ [][NextMeta]_vars

\* the files diff.js is run on twice
RerunFiles == ScanDocuments(1) \cup {NoPagesDocument, UnreadableFile}

InitTwice ==
    /\ DiffIdle
    /\ args \in {"ok", "missing"}
    /\ baselineFile \in RerunFiles
    /\ headFile \in RerunFiles
    /\ args = "missing" =>
          /\ baselineFile = scanDocument(<<>>)
          /\ headFile = scanDocument(<<>>)
    /\ envFailOnRegression = "unset"
    /\ outputFile = NoReport
    /\ CommentIdle
    /\ FpIdle
    /\ TwiceIdle
    /\ ScanIdle
    /\ FixIdle

\* time passes
Tick ==
    /\ clock < MaxClock
    /\ clock' = clock + 1
    /\ UNCHANGED <<diffVars, envFailOnRegression, commentVars, fpVars, firstRun,
                   scanVars, fixVars>>

\* diff.js is started again with the same arguments on the same files; what
\* the first run computed and left is remembered, the report stays on disk
DiffRerun ==
    /\ pc \in {"exited", "threw"}
    /\ firstRun = <<>>
    /\ firstRun' = <<[baselineMap |-> baselineMap, headMap |-> headMap,
                      report |-> outputFile, exit |-> exitCode]>>
    /\ pc' = "start"
    /\ baselineMap' = <<>>
    /\ headMap' = <<>>
    /\ newViolations' = <<>>
    /\ resolvedViolations' = <<>>
    /\ unchangedViolations' = <<>>
    /\ regression' = FALSE
    /\ exitCode' = <<>>
    /\ UNCHANGED <<args, baselineFile, headFile, outputFile, clock,
                   envFailOnRegression, commentVars, fpVars, scanVars, fixVars>>

NextTwice ==
    \/ DiffUsage /\ UNCHANGED <<envFailOnRegression, commentVars, fpVars, twiceVars, scanVars, fixVars>>
    \/ DiffThrow /\ UNCHANGED <<envFailOnRegression, commentVars, fpVars, twiceVars, scanVars, fixVars>>
    \/ DiffIndex /\ UNCHANGED <<envFailOnRegression, commentVars, fpVars, twiceVars, scanVars, fixVars>>
    \/ DiffPartition /\ UNCHANGED <<envFailOnRegression, commentVars, fpVars, twiceVars, scanVars, fixVars>>
    \/ DiffWrite /\ UNCHANGED <<envFailOnRegression, commentVars, fpVars, twiceVars, scanVars, fixVars>>
    \/ DiffExit /\ UNCHANGED <<envFailOnRegression, commentVars, fpVars, twiceVars, scanVars, fixVars>>
    \/ Tick
    \/ DiffRerun

SpecTwice == InitTwice /\ [][NextTwice]_vars

----------------------------------------------------------------------------
(* scan.js *)

\* line 24
IMPACT_ORDER == <<"minor", "moderate", "serious", "critical">>

\* Array.prototype.indexOf: the position of the first x counted from 0, -1
\* when there is none
indexOf(array, x) ==
    IF \E i \in DOMAIN array : array[i] = x
    THEN (CHOOSE i \in DOMAIN array :
              array[i] = x /\ \A j \in 1..(i - 1) : array[j] # x) - 1
    ELSE -1

\* line 30: args.impactLevel || 'moderate'
impactLevelOf(arg) == IF arg = "" THEN "moderate" ELSE arg

\* line 33
minImpactIdx(level) == indexOf(IMPACT_ORDER, level)

\* the threshold as a strict bound
meetsImpactThresholdStrictly(impact, level) ==
    indexOf(IMPACT_ORDER, impact) > minImpactIdx(level)

\* lines 34-36
meetsImpactThreshold(impact, level) ==
    indexOf(IMPACT_ORDER, impact) >= minImpactIdx(level)

\* line 26: the default of --baseUrl
baseUrl == "http://localhost:3000"

\* lines 67-79: the page entry scanPage returns for the results of the rule
\* engine (the counts of passes and incompletes and the time stamp are left out)
pageResult(urlPath, results, level) ==
    [urlPath    |-> urlPath,
     fullUrl    |-> baseUrl \o urlPath,
     violations |-> SelectSeq(results.violations,
                              LAMBDA v : meetsImpactThreshold(v.impact, level))]

\* one violation of each severity tier, as the rule engine reports it for a page
engineViolation(impact, urlPath) ==
    CASE impact = "minor" ->
             scanViolation(occurrence("region", "minor", urlPath, <<"body">>, ""))
      [] impact = "moderate" ->
             scanViolation(occurrence("label", "moderate", urlPath, <<"form>input">>, ""))
      [] impact = "serious" ->
             scanViolation(occurrence("color-contrast", "serious", urlPath, <<"main", "p">>, ""))
      [] impact = "critical" ->
             scanViolation(occurrence("image-alt", "critical", urlPath,
                                      <<"main", "img">>, "<img src=a>"))

\* what loading and analysing one URL path can give: the results of the rule
\* engine, or an error thrown by the navigation or the analysis
EngineOutcomes(urlPath) ==
    {[ok |-> TRUE, violations |-> [i \in DOMAIN tiers |-> engineViolation(tiers[i], urlPath)]] :
        tiers \in {<<>>, <<"minor">>, <<"minor", "critical">>, <<"moderate", "serious">>}}
    \cup {[ok |-> FALSE, message |-> "net::ERR_CONNECTION_REFUSED at " \o baseUrl \o urlPath]}

UrlPaths == {"/", "/about"}

ImpactLevels == {"", "minor", "moderate", "serious", "critical", "high"}

InitScan ==
    /\ DiffIdle
    /\ args = "missing"
    /\ baselineFile = scanDocument(<<>>)
    /\ headFile = scanDocument(<<>>)
    /\ envFailOnRegression = "unset"
    /\ outputFile = NoReport
    /\ CommentIdle
    /\ FpIdle
    /\ TwiceIdle
    /\ FixIdle
    /\ urls \in SeqsUpTo(UrlPaths, MaxUrls)
    /\ engine \in [DOMAIN urls -> UNION {EngineOutcomes(u) : u \in UrlPaths}]
    /\ \A i \in DOMAIN urls : engine[i] \in EngineOutcomes(urls[i])
    /\ impactLevel \in ImpactLevels
    /\ spc = "start"
    /\ todo = <<>>
    /\ pages = <<>>
    /\ errors = <<>>
    /\ scanFile = <<>>
    /\ scanExit = <<>>

\* lines 139-142: a rejection outside the try of the loop (the browser does
\* not start, a page cannot be opened or closed) ends the process with status 1
ScanFatal ==
    /\ spc \in {"start", "loop"}
    /\ spc' = "fatal"
    /\ scanExit' = <<1>>
    /\ UNCHANGED <<urls, engine, impactLevel, todo, pages, errors, scanFile>>

\* lines 96-101: the browser is started, the lists are empty
ScanLaunch ==
    /\ spc = "start"
    /\ spc' = "loop"
    /\ todo' = urls
    /\ pages' = <<>>
    /\ errors' = <<>>
    /\ UNCHANGED <<urls, engine, impactLevel, scanFile, scanExit>>

\* one iteration that skips the page when the scan throws
ScanNextDropsError ==
    /\ spc = "loop"
    /\ todo # <<>>
    /\ LET urlPath == Head(todo)
           results == engine[Len(urls) - Len(todo) + 1]
       IN  IF results.ok
           THEN /\ pages' = Append(pages, pageResult(urlPath, results, impactLevelOf(impactLevel)))
                /\ UNCHANGED errors
           ELSE UNCHANGED <<pages, errors>>
    /\ todo' = Tail(todo)
    /\ UNCHANGED <<urls, engine, impactLevel, spc, scanFile, scanExit>>

\* the scan stopped at the first page that fails
ScanNextStopsAtError ==
    /\ spc = "loop"
    /\ todo # <<>>
    /\ LET urlPath == Head(todo)
           results == engine[Len(urls) - Len(todo) + 1]
       IN  IF results.ok
           THEN /\ pages' = Append(pages, pageResult(urlPath, results, impactLevelOf(impactLevel)))
                /\ todo' = Tail(todo)
                /\ UNCHANGED errors
           ELSE /\ errors' = Append(errors, [urlPath |-> urlPath, error |-> results.message])
                /\ todo' = <<>>
                /\ UNCHANGED pages
    /\ UNCHANGED <<urls, engine, impactLevel, spc, scanFile, scanExit>>

\* one iteration that records a page only when it has violations
ScanNextSkipsCleanPages ==
    /\ spc = "loop"
    /\ todo # <<>>
    /\ LET urlPath == Head(todo)
           results == engine[Len(urls) - Len(todo) + 1]
           result  == pageResult(urlPath, results, impactLevelOf(impactLevel))
       IN  IF results.ok
           THEN /\ pages' = IF result.violations = <<>> THEN pages ELSE Append(pages, result)
                /\ UNCHANGED errors
           ELSE /\ errors' = Append(errors, [urlPath |-> urlPath, error |-> results.message])
                /\ UNCHANGED pages
    /\ todo' = Tail(todo)
    /\ UNCHANGED <<urls, engine, impactLevel, spc, scanFile, scanExit>>

\* lines 105-118: one iteration of the loop over urls
ScanNext ==
    /\ spc = "loop"
    /\ todo # <<>>
    /\ LET urlPath == Head(todo)
           results == engine[Len(urls) - Len(todo) + 1]
       IN  IF results.ok
           THEN /\ pages' = Append(pages, pageResult(urlPath, results, impactLevelOf(impactLevel)))
                /\ UNCHANGED errors
           ELSE /\ errors' = Append(errors, [urlPath |-> urlPath, error |-> results.message])
                /\ UNCHANGED pages
    /\ todo' = Tail(todo)
    /\ UNCHANGED <<urls, engine, impactLevel, spc, scanFile, scanExit>>

\* lines 119-130: the browser is closed and the output is written
ScanWrite ==
    /\ spc = "loop"
    /\ todo = <<>>
    /\ scanFile' = <<[generatedAt |-> toISOString(clock),
                      baseUrl     |-> baseUrl,
                      impactLevel |-> impactLevelOf(impactLevel),
                      pages       |-> pages,
                      errors      |-> errors]>>
    /\ spc' = "written"
    /\ UNCHANGED <<urls, engine, impactLevel, todo, pages, errors, scanExit>>

\* the exit status without regard to the failed pages
scanStatusAlwaysZero(errs) == 0

\* lines 133-137: status 1 when a page failed; otherwise main returns and the
\* process ends with status 0
scanStatus(errs) == IF Len(errs) > 0 THEN 1 ELSE 0

ScanExit ==
    /\ spc = "written"
    /\ scanExit' = <<scanStatus(errors)>>
    /\ spc' = "exited"
    /\ UNCHANGED <<urls, engine, impactLevel, todo, pages, errors, scanFile>>

NextScan ==
    \/ ScanFatal /\ UNCHANGED <<diffVars, envFailOnRegression, commentVars, fpVars, twiceVars, fixVars>>
    \/ ScanLaunch /\ UNCHANGED <<diffVars, envFailOnRegression, commentVars, fpVars, twiceVars, fixVars>>
    \/ ScanNext /\ UNCHANGED <<diffVars, envFailOnRegression, commentVars, fpVars, twiceVars, fixVars>>
    \/ ScanWrite /\ UNCHANGED <<diffVars, envFailOnRegression, commentVars, fpVars, twiceVars, fixVars>>
    \/ ScanExit /\ UNCHANGED <<diffVars, envFailOnRegression, commentVars, fpVars, twiceVars, fixVars>>

SpecScan == InitScan /\ [][NextScan]_vars

----------------------------------------------------------------------------
(* comment.js *)

failOnRegressionOptIn(env) == env = "true"

\* line 28: process.env.FAIL_ON_REGRESSION !== 'false'
FAIL_ON_REGRESSION(env) == env # "false"

\* lines 173-175 and 264-266 of buildComment: the header and the report-only note
buildComment(diff, failOn) ==
    [marker           |-> TRUE,
     byAction         |-> TRUE,
     regressionsFound |-> diff.regression,
     reportOnly       |-> ~failOn /\ diff.regression]

\* line 317: comment.body.includes('Accessibility Check')
isA11yComment(comment) == comment.body.marker

\* the bodies of the comments found on the pull request: an earlier report of
\* the action, a comment of a user, a comment of a user quoting the report header
ExistingBodies ==
    {[marker |-> TRUE,  byAction |-> TRUE,  regressionsFound |-> FALSE, reportOnly |-> FALSE],
     [marker |-> FALSE, byAction |-> FALSE, regressionsFound |-> FALSE, reportOnly |-> FALSE],
     [marker |-> TRUE,  byAction |-> FALSE, regressionsFound |-> FALSE, reportOnly |-> FALSE]}

existingComments(bodies) ==
    [i \in DOMAIN bodies |-> [id |-> "c" \o ToString(i), body |-> bodies[i]]]

\* documents of at most one occurrence give reports with and without a
\* regression, a resolved and an unchanged violation
ReportDocuments == ScanDocuments(1)

\* the state diff.js leaves behind after a complete run on two scan files
DiffDone(b, h) ==
    LET bm == buildFingerprintMap(b)
        hm == buildFingerprintMap(h)
        nv == newViolationsOf(bm, hm)
        rv == resolvedViolationsOf(bm, hm)
        uv == unchangedViolationsOf(bm, hm)
        rg == regressionOf(nv, rv)
    IN  /\ args = "ok"
        /\ baselineFile = b
        /\ headFile = h
        /\ baselineMap = bm
        /\ headMap = hm
        /\ newViolations = nv
        /\ resolvedViolations = rv
        /\ unchangedViolations = uv
        /\ regression = rg
        /\ outputFile = <<diffReport(bm, hm, nv, rv, uv, rg, clock)>>
        /\ exitCode = <<exitStatus(rg)>>
        /\ pc = "exited"

\* comment.js is started after diff.js has run, or without a diff file
InitComment ==
    /\ TwiceIdle
    /\ ScanIdle
    /\ FixIdle
    /\ \/ \E b \in ReportDocuments, h \in ReportDocuments : DiffDone(b, h)
       \/ /\ DiffIdle
          /\ args = "missing"
          /\ baselineFile = scanDocument(<<>>)
          /\ headFile = scanDocument(<<>>)
          /\ outputFile = NoReport
    /\ envFailOnRegression \in EnvValues
    /\ githubEnv \in BOOLEAN
    /\ cpc = "start"
    /\ commentDiff = <<>>
    /\ listed = <<>>
    /\ comments \in {existingComments(bs) : bs \in SeqsUpTo(ExistingBodies, MaxComments)}
    /\ commentExit = <<>>
    /\ FpIdle

\* main().catch: the error is printed and the process exits with status 1
CommentFatal ==
    /\ cpc' = "fatal"
    /\ commentExit' = <<1>>

\* lines 30-33: a required environment variable is missing
CommentEnvMissing ==
    /\ cpc = "start"
    /\ ~githubEnv
    /\ cpc' = "envMissing"
    /\ commentExit' = <<1>>
    /\ UNCHANGED <<githubEnv, commentDiff, listed, comments>>

\* lines 333-334: the diff file is read and parsed
CommentRead ==
    /\ cpc = "start"
    /\ githubEnv
    /\ IF outputFile = NoReport
       THEN CommentFatal /\ UNCHANGED commentDiff
       ELSE /\ commentDiff' = outputFile
            /\ cpc' = "listing"
            /\ UNCHANGED commentExit
    /\ UNCHANGED <<githubEnv, listed, comments>>

\* line 315: the comments of the pull request are listed
CommentList ==
    /\ cpc = "listing"
    /\ \E ok \in BOOLEAN :
          IF ok
          THEN /\ listed' = comments
               /\ cpc' = "deleting"
               /\ UNCHANGED commentExit
          ELSE CommentFatal /\ UNCHANGED listed
    /\ UNCHANGED <<githubEnv, commentDiff, comments>>

\* lines 316-321: one iteration of the loop of deleteExistingComments
CommentDeleteNext ==
    /\ cpc = "deleting"
    /\ listed # <<>>
    /\ LET comment == Head(listed)
       IN  IF isA11yComment(comment)
           THEN \E ok \in BOOLEAN :
                   IF ok
                   THEN /\ comments' = SelectSeq(comments, LAMBDA c : c.id # comment.id)
                        /\ listed' = Tail(listed)
                        /\ UNCHANGED <<cpc, commentExit>>
                   ELSE CommentFatal /\ UNCHANGED <<listed, comments>>
           ELSE /\ listed' = Tail(listed)
                /\ UNCHANGED <<cpc, commentExit, comments>>
    /\ UNCHANGED <<githubEnv, commentDiff>>

\* the new comment posted without waiting for the deletions
CommentPostBeforeDeletion ==
    /\ cpc = "deleting"
    /\ \E ok \in BOOLEAN :
          IF ok
          THEN /\ comments' = Append(comments,
                      [id   |-> "posted",
                       body |-> buildComment(commentDiff[1],
                                             FAIL_ON_REGRESSION(envFailOnRegression))])
               /\ cpc' = "gate"
               /\ UNCHANGED commentExit
          ELSE CommentFatal /\ UNCHANGED comments
    /\ UNCHANGED <<githubEnv, commentDiff, listed>>

\* line 337: the new comment is posted
CommentPost ==
    /\ cpc = "deleting"
    /\ listed = <<>>
    /\ \E ok \in BOOLEAN :
          IF ok
          THEN /\ comments' = Append(comments,
                      [id   |-> "posted",
                       body |-> buildComment(commentDiff[1],
                                             FAIL_ON_REGRESSION(envFailOnRegression))])
               /\ cpc' = "gate"
               /\ UNCHANGED commentExit
          ELSE CommentFatal /\ UNCHANGED comments
    /\ UNCHANGED <<githubEnv, commentDiff, listed>>

\* line 340: diff.regression && FAIL_ON_REGRESSION
shouldFail(diff, failOn) == diff.regression /\ failOn

\* lines 340-345: the regression gate
CommentGate ==
    /\ cpc = "gate"
    /\ commentExit' = <<IF shouldFail(commentDiff[1], FAIL_ON_REGRESSION(envFailOnRegression))
                        THEN 1 ELSE 0>>
    /\ cpc' = "gateExit"
    /\ UNCHANGED <<githubEnv, commentDiff, listed, comments>>

NextComment ==
    \/ CommentEnvMissing /\ UNCHANGED <<diffVars, envFailOnRegression, fpVars, twiceVars, scanVars, fixVars>>
    \/ CommentRead /\ UNCHANGED <<diffVars, envFailOnRegression, fpVars, twiceVars, scanVars, fixVars>>
    \/ CommentList /\ UNCHANGED <<diffVars, envFailOnRegression, fpVars, twiceVars, scanVars, fixVars>>
    \/ CommentDeleteNext /\ UNCHANGED <<diffVars, envFailOnRegression, fpVars, twiceVars, scanVars, fixVars>>
    \/ CommentPost /\ UNCHANGED <<diffVars, envFailOnRegression, fpVars, twiceVars, scanVars, fixVars>>
    \/ CommentGate /\ UNCHANGED <<diffVars, envFailOnRegression, fpVars, twiceVars, scanVars, fixVars>>

SpecComment == InitComment /\ [][NextComment]_vars

----------------------------------------------------------------------------
(* auto-fix.js *)

\* line 20
AI_FIX_MARKER == ""

\* String.prototype.includes
includes(str, sub) ==
    \E i \in 1..(Len(str) - Len(sub) + 1) : SubSeq(str, i, i + Len(sub) - 1) = sub

\* line 153: comment.body && comment.body.includes(AI_FIX_MARKER)
isAIFixComment(comment) ==
    comment.body # "" /\ includes(comment.body, AI_FIX_MARKER)

\* lines 44-53: the places a page path is looked for under the project root
searchPaths(cleanPath) ==
    <<cleanPath,
      cleanPath \o ".html",
      cleanPath \o "/index.html",
      ".next/server/app/" \o cleanPath \o ".html",
      ".next/server/app/" \o cleanPath \o "/index.html",
      ".next/server/pages/" \o cleanPath \o ".html",
      ".next/server/pages/" \o cleanPath \o "/index.html">>

\* lines 26-62: the file of a page path, <<>> when there is none (null),
\* <<path>> otherwise; files is the set of the files that exist
resolveUrlToFile(urlPath, files) ==
    IF urlPath = "/" \/ urlPath = ""
    THEN IF "index.html" \in files THEN <<"index.html">> ELSE <<>>
    ELSE LET cleanPath == IF SubSeq(urlPath, 1, 1) = "/"
                          THEN SubSeq(urlPath, 2, Len(urlPath)) ELSE urlPath
             found     == SelectSeq(searchPaths(cleanPath), LAMBDA testPath : testPath \in files)
         IN  IF found = <<>> THEN <<>> ELSE <<Head(found)>>

\* [...new Set(array)]: the elements without repetition, in the order of
\* their first occurrence
RECURSIVE unique(_)
unique(array) ==
    IF array = <<>> THEN <<>>
    ELSE LET before == unique(ButLast(array))
         IN  IF Last(array) \in Range(before) THEN before ELSE Append(before, Last(array))

\* lines 210-211
pagesToFixOf(diff) ==
    unique([i \in DOMAIN diff.newViolations |-> diff.newViolations[i].urlPath])

\* line 226
pageViolations(diff, urlPath) ==
    SelectSeq(diff.newViolations, LAMBDA v : v.urlPath = urlPath)

\* lines 163-189: the summary comment: the marker, the heading and the list
\* of the files modified (the table of violations is left out)
buildFixSummaryComment(fixed, skipped) ==
    AI_FIX_MARKER \o "\n## INFO: AI Accessibility Auto-Fix Summary\n**Files modified:** "
        \o join([i \in DOMAIN fixed |-> fixed[i].filePath], ", ")

\* the comments found on the pull request: a comment of a user, the report of
\* comment.js, an earlier summary of the auto-fixer
FixExistingBodies ==
    {"LGTM",
     "## Accessibility Check - No Regressions",
     buildFixSummaryComment(<<[filePath |-> "index.html"]>>, <<>>)}

\* the files of the project before the run
ProjectTrees ==
    {[f \in files |-> "<html>" \o f \o "</html>"] :
        files \in {{"index.html", "about.html"}, {"index.html"}, {"about/index.html"}}}

\* what fixFileWithAI gives for a file: the code the model returned, or an
\* error (the request fails, the response has no choices)
AIOutcomes(filePath) ==
    {[ok |-> TRUE, code |-> "<html lang=en>" \o filePath \o "</html>"],
     [ok |-> FALSE, message |-> "OpenRouter API error (HTTP 429)"]}

\* the scans behind the diff files the auto-fixer is run on: nothing, one
\* page with one or two new violations, two pages in either order
FixHeads ==
    LET root   == occurrence("image-alt", "critical", "/", <<"main", "img">>, "<img src=a>")
        root2  == occurrence("image-alt", "critical", "/", <<"main", "img">>, "<img src=b>")
        about  == occurrence("image-alt", "critical", "/about", <<"main", "img">>, "<img src=a>")
    IN  {scanDocument(occs) :
            occs \in {<<>>, <<root>>, <<root, root2>>, <<root, about>>, <<about, root>>}}

FixBaselines ==
    {scanDocument(<<>>),
     scanDocument(<<occurrence("image-alt", "critical", "/", <<"main", "img">>, "<img src=a>")>>)}

\* auto-fix.js is started after diff.js has run, without a diff file, or
\* with a diff file that is not JSON
InitFix ==
    /\ TwiceIdle
    /\ ScanIdle
    /\ FpIdle
    /\ \/ \E b \in FixBaselines, h \in FixHeads : DiffDone(b, h)
       \/ /\ DiffIdle
          /\ args = "missing"
          /\ baselineFile = scanDocument(<<>>)
          /\ headFile = scanDocument(<<>>)
          /\ outputFile \in {NoReport, <<UnreadableFile>>}
    /\ envFailOnRegression = "unset"
    /\ githubEnv \in BOOLEAN
    /\ cpc = "start"
    /\ commentDiff = <<>>
    /\ commentExit = <<>>
    /\ listed = <<>>
    /\ comments \in {[i \in DOMAIN bs |-> [id |-> "c" \o ToString(i), body |-> bs[i]]] :
                         bs \in SeqsUpTo(FixExistingBodies, MaxComments)}
    /\ apiKey \in BOOLEAN
    /\ projectFiles \in ProjectTrees
    /\ fxpc = "start"
    /\ fixDiff = <<>>
    /\ pagesToFix = <<>>
    /\ fixedFiles = <<>>
    /\ skippedUrls = <<>>
    /\ fixExit = <<>>

\* main returns: nothing is left to run and the process ends with status 0
FixReturn ==
    /\ fxpc' = "done"
    /\ fixExit' = <<0>>

\* lines 192-195: no API key
FixNoKey ==
    /\ fxpc = "start"
    /\ ~apiKey
    /\ FixReturn
    /\ UNCHANGED <<apiKey, projectFiles, fixDiff, pagesToFix, fixedFiles, skippedUrls,
                   githubEnv, listed, comments>>

\* lines 197-200: no diff file
FixNoDiff ==
    /\ fxpc = "start"
    /\ apiKey
    /\ outputFile = NoReport
    /\ FixReturn
    /\ UNCHANGED <<apiKey, projectFiles, fixDiff, pagesToFix, fixedFiles, skippedUrls,
                   githubEnv, listed, comments>>

\* lines 202 and 260-263: JSON.parse throws, main().catch exits with status 1
FixFatal ==
    /\ fxpc = "start"
    /\ apiKey
    /\ outputFile = <<UnreadableFile>>
    /\ fxpc' = "fatal"
    /\ fixExit' = <<1>>
    /\ UNCHANGED <<apiKey, projectFiles, fixDiff, pagesToFix, fixedFiles, skippedUrls,
                   githubEnv, listed, comments>>

\* lines 202-214: the diff is read; without regression and new violations
\* main returns, otherwise the pages to fix are collected
FixRead ==
    /\ fxpc = "start"
    /\ apiKey
    /\ outputFile # NoReport
    /\ outputFile # <<UnreadableFile>>
    /\ fixDiff' = outputFile
    /\ LET diff == outputFile[1]
       IN  IF ~diff.regression /\ Len(diff.newViolations) = 0
           THEN FixReturn /\ UNCHANGED pagesToFix
           ELSE /\ pagesToFix' = pagesToFixOf(diff)
                /\ fxpc' = "fixing"
                /\ UNCHANGED fixExit
    /\ UNCHANGED <<apiKey, projectFiles, fixedFiles, skippedUrls, githubEnv, listed, comments>>

\* one iteration that writes what it has even when the AI call failed
FixNextWritesOnFailure ==
    /\ fxpc = "fixing"
    /\ pagesToFix # <<>>
    /\ LET urlPath  == Head(pagesToFix)
           filePath == resolveUrlToFile(urlPath, DOMAIN projectFiles)
       IN  IF filePath = <<>>
           THEN /\ skippedUrls' = Append(skippedUrls, urlPath)
                /\ UNCHANGED <<projectFiles, fixedFiles>>
           ELSE \E fixed \in AIOutcomes(filePath[1]) :
                   IF fixed.ok
                   THEN /\ projectFiles' = [projectFiles EXCEPT ![filePath[1]] = fixed.code]
                        /\ fixedFiles' = Append(fixedFiles,
                               [filePath   |-> filePath[1],
                                violations |-> pageViolations(fixDiff[1], urlPath)])
                        /\ UNCHANGED skippedUrls
                   ELSE /\ projectFiles' = [projectFiles EXCEPT ![filePath[1]] = ""]
                        /\ UNCHANGED <<fixedFiles, skippedUrls>>
    /\ pagesToFix' = Tail(pagesToFix)
    /\ UNCHANGED <<apiKey, fxpc, fixDiff, fixExit, githubEnv, listed, comments>>

\* lines 216-236: one iteration of the loop over pagesToFix
FixNext ==
    /\ fxpc = "fixing"
    /\ pagesToFix # <<>>
    /\ LET urlPath  == Head(pagesToFix)
           filePath == resolveUrlToFile(urlPath, DOMAIN projectFiles)
       IN  IF filePath = <<>>
           THEN /\ skippedUrls' = Append(skippedUrls, urlPath)
                /\ UNCHANGED <<projectFiles, fixedFiles>>
           ELSE \E fixed \in AIOutcomes(filePath[1]) :
                   IF fixed.ok
                   THEN /\ projectFiles' = [projectFiles EXCEPT ![filePath[1]] = fixed.code]
                        /\ fixedFiles' = Append(fixedFiles,
                               [filePath   |-> filePath[1],
                                violations |-> pageViolations(fixDiff[1], urlPath)])
                        /\ UNCHANGED skippedUrls
                   ELSE UNCHANGED <<projectFiles, fixedFiles, skippedUrls>>
    /\ pagesToFix' = Tail(pagesToFix)
    /\ UNCHANGED <<apiKey, fxpc, fixDiff, fixExit, githubEnv, listed, comments>>

\* lines 238-246: after the loop main returns when no file was fixed or the
\* GitHub variables are missing
FixAfterLoop ==
    /\ fxpc = "fixing"
    /\ pagesToFix = <<>>
    /\ IF fixedFiles = <<>> \/ ~githubEnv
       THEN FixReturn
       ELSE fxpc' = "listing" /\ UNCHANGED fixExit
    /\ UNCHANGED <<apiKey, projectFiles, fixDiff, pagesToFix, fixedFiles, skippedUrls,
                   githubEnv, listed, comments>>

\* line 151: the comments are listed; a failure is caught at line 158
FixList ==
    /\ fxpc = "listing"
    /\ \E ok \in BOOLEAN :
          IF ok
          THEN listed' = comments /\ fxpc' = "deleting"
          ELSE listed' = <<>> /\ fxpc' = "posting"
    /\ UNCHANGED <<apiKey, projectFiles, fixDiff, pagesToFix, fixedFiles, skippedUrls,
                   fixExit, githubEnv, comments>>

\* lines 152-157: one iteration of the loop of deleteExistingAIFixComments; a
\* failed DELETE is caught at line 158 and ends the loop
FixDeleteNext ==
    /\ fxpc = "deleting"
    /\ listed # <<>>
    /\ LET comment == Head(listed)
       IN  IF isAIFixComment(comment)
           THEN \E ok \in BOOLEAN :
                   IF ok
                   THEN /\ comments' = SelectSeq(comments, LAMBDA c : c.id # comment.id)
                        /\ listed' = Tail(listed)
                        /\ UNCHANGED fxpc
                   ELSE /\ listed' = <<>>
                        /\ fxpc' = "posting"
                        /\ UNCHANGED comments
           ELSE /\ listed' = Tail(listed)
                /\ UNCHANGED <<fxpc, comments>>
    /\ UNCHANGED <<apiKey, projectFiles, fixDiff, pagesToFix, fixedFiles, skippedUrls,
                   fixExit, githubEnv>>

\* lines 251-257: the summary is posted; a failure is caught and main returns
FixPost ==
    /\ \/ fxpc = "deleting" /\ listed = <<>>
       \/ fxpc = "posting"
    /\ \E ok \in BOOLEAN :
          IF ok
          THEN comments' = Append(comments,
                   [id |-> "posted", body |-> buildFixSummaryComment(fixedFiles, skippedUrls)])
          ELSE UNCHANGED comments
    /\ FixReturn
    /\ UNCHANGED <<apiKey, projectFiles, fixDiff, pagesToFix, fixedFiles, skippedUrls,
                   githubEnv, listed>>

NextFix ==
    \/ FixNoKey /\ UNCHANGED <<diffVars, envFailOnRegression, fpVars, twiceVars, scanVars, cpc, commentDiff, commentExit>>
    \/ FixNoDiff /\ UNCHANGED <<diffVars, envFailOnRegression, fpVars, twiceVars, scanVars, cpc, commentDiff, commentExit>>
    \/ FixFatal /\ UNCHANGED <<diffVars, envFailOnRegression, fpVars, twiceVars, scanVars, cpc, commentDiff, commentExit>>
    \/ FixRead /\ UNCHANGED <<diffVars, envFailOnRegression, fpVars, twiceVars, scanVars, cpc, commentDiff, commentExit>>
    \/ FixNext /\ UNCHANGED <<diffVars, envFailOnRegression, fpVars, twiceVars, scanVars, cpc, commentDiff, commentExit>>
    \/ FixAfterLoop /\ UNCHANGED <<diffVars, envFailOnRegression, fpVars, twiceVars, scanVars, cpc, commentDiff, commentExit>>
    \/ FixList /\ UNCHANGED <<diffVars, envFailOnRegression, fpVars, twiceVars, scanVars, cpc, commentDiff, commentExit>>
    \/ FixDeleteNext /\ UNCHANGED <<diffVars, envFailOnRegression, fpVars, twiceVars, scanVars, cpc, commentDiff, commentExit>>
    \/ FixPost /\ UNCHANGED <<diffVars, envFailOnRegression, fpVars, twiceVars, scanVars, cpc, commentDiff, commentExit>>

SpecFix == InitFix /\ [][NextFix]_vars

----------------------------------------------------------------------------
(* The fingerprint on a pair of occurrences *)

\* occurrences whose rule ids, page paths and selector fragments contain the
\* separators of the fingerprint
FpOccurrences ==
    {occurrence(id, "minor", u, t, h) :
        id \in {"label", "label::/a"},
        u  \in {"/b", "/a::/b"},
        t  \in {<<"main", "img">>, <<"main>img">>, <<"img">>},
        h  \in {"<img src=a>", "<img  src=a>", "<img src=b>",
                "<img src=a id=b>", "<img id=b src=a>"}}

fingerprintOf(o) == fingerprint(o.id, o.urlPath, scanNode(o))

InitFp ==
    /\ DiffIdle
    /\ args = "missing"
    /\ baselineFile = scanDocument(<<>>)
    /\ headFile = scanDocument(<<>>)
    /\ envFailOnRegression = "unset"
    /\ outputFile = NoReport
    /\ CommentIdle
    /\ TwiceIdle
    /\ ScanIdle
    /\ FixIdle
    /\ fpIn \in FpOccurrences \X FpOccurrences
    /\ fpOut = <<>>

\* fingerprint is called on both occurrences
FpCall ==
    /\ fpOut = <<>>
    /\ fpOut' = <<fingerprintOf(fpIn[1]), fingerprintOf(fpIn[2])>>
    /\ UNCHANGED fpIn

NextFp == FpCall /\ UNCHANGED <<diffVars, envFailOnRegression, commentVars, twiceVars, scanVars, fixVars>>

SpecFp == InitFp /\ [][NextFp]_vars

----------------------------------------------------------------------------
(* Claims about the three-way partition *)

\* main has computed the three lists
AfterPartition == args = "ok" /\ pc \in {"partitioned", "written", "exited"}

fingerprintsOf(records) == {records[i].fingerprint : i \in DOMAIN records}

occurrencesIn(records, fp) == Cardinality({i \in DOMAIN records : records[i].fingerprint = fp})

\* C1: newViolations is exactly the head-index records whose fingerprint is
\* not a key of the baseline index: none of its records has a fingerprint of
\* the baseline index, and every head fingerprint absent from the baseline
\* index appears in it exactly once, with the head record.
C1_NewIsHeadMinusBaseline ==
    AfterPartition =>
        /\ \A i \in DOMAIN newViolations :
              /\ newViolations[i].fingerprint \notin mapKeys(baselineMap)
              /\ newViolations[i] \in Range(headMap)
        /\ \A j \in DOMAIN headMap :
              headMap[j].fingerprint \notin mapKeys(baselineMap) =>
                  /\ occurrencesIn(newViolations, headMap[j].fingerprint) = 1
                  /\ headMap[j] \in Range(newViolations)

\* a head scan with one record kept out of newViolations and one put into it
C1_Witness ==
    /\ AfterPartition
    /\ Len(newViolations) = 1
    /\ Len(headMap) = 2
    /\ \E i \in DOMAIN baselineMap :
          baselineMap[i].id = newViolations[1].id /\ baselineMap[i].target = newViolations[1].target

\* C2: resolvedViolations is exactly the baseline-index records whose
\* fingerprint is not a key of the head index, each exactly once and as the
\* baseline scan recorded it.
C2_ResolvedIsBaselineMinusHead ==
    AfterPartition =>
        /\ \A i \in DOMAIN resolvedViolations :
              /\ resolvedViolations[i].fingerprint \notin mapKeys(headMap)
              /\ resolvedViolations[i] \in Range(baselineMap)
        /\ \A j \in DOMAIN baselineMap :
              baselineMap[j].fingerprint \notin mapKeys(headMap) =>
                  /\ occurrencesIn(resolvedViolations, baselineMap[j].fingerprint) = 1
                  /\ baselineMap[j] \in Range(resolvedViolations)

\* a baseline scan with one record resolved and one still in head
C2_Witness ==
    /\ AfterPartition
    /\ Len(resolvedViolations) = 1
    /\ Len(baselineMap) = 2
    /\ \E i \in DOMAIN headMap :
          headMap[i].id = resolvedViolations[1].id /\ headMap[i].target = resolvedViolations[1].target

\* C3: regression is true exactly when newViolations is not empty, whatever
\* resolvedViolations and unchangedViolations hold; a head scan whose
\* fingerprints all exist in the baseline gives regression = false.
C3_RegressionIffNew ==
    AfterPartition =>
        /\ regression <=> Len(newViolations) > 0
        /\ mapKeys(headMap) \subseteq mapKeys(baselineMap) => ~regression
        /\ outputFile # NoReport => outputFile[1].regression = (Len(newViolations) > 0)

\* no regression although a violation was resolved and another one remains
C3_Witness ==
    /\ pc = "exited"
    /\ args = "ok"
    /\ ~regression
    /\ Len(resolvedViolations) > 0
    /\ Len(unchangedViolations) > 0

\* C4: the fingerprints of new and unchanged are the keys of the head index,
\* those of resolved and unchanged the keys of the baseline index, and no
\* fingerprint is in two of new, resolved and unchanged.
C4_PartitionComplete ==
    AfterPartition =>
        LET n == fingerprintsOf(newViolations)
            r == fingerprintsOf(resolvedViolations)
            u == fingerprintsOf(unchangedViolations)
        IN  /\ n \cup u = mapKeys(headMap)
            /\ r \cup u = mapKeys(baselineMap)
            /\ n \cap r = {}
            /\ n \cap u = {}
            /\ r \cap u = {}

\* all three lists are non-empty
C4_Witness ==
    /\ AfterPartition
    /\ Len(newViolations) > 0
    /\ Len(resolvedViolations) > 0
    /\ Len(unchangedViolations) > 0

----------------------------------------------------------------------------
(* Claims about the exit status and the regression gate *)

\* main of diff.js has run to its last line
DiffEnded == args = "ok" /\ pc = "exited"

\* C5 as stated: the exit status of diff.js is 0 without a regression and 1
\* with one, except that it is 0 when failOnRegression is false; the report
\* is written in every case.
C5_ExitHonoursFailOnRegression ==
    DiffEnded =>
        /\ outputFile # NoReport
        /\ exitCode = <<IF regression /\ FAIL_ON_REGRESSION(envFailOnRegression)
                        THEN 1 ELSE 0>>

\* C5 as amended: the exit status of diff.js is 0 without a regression and 1
\* with one, whatever FAIL_ON_REGRESSION is; the report is written before the
\* exit in both cases and carries the same regression flag.
C5_ExitFollowsRegression ==
    DiffEnded =>
        /\ outputFile # NoReport
        /\ outputFile[1].regression = regression
        /\ exitCode = <<IF Len(newViolations) > 0 THEN 1 ELSE 0>>

\* diff.js has ended with status 1 although FAIL_ON_REGRESSION is "false"
C5_Witness ==
    /\ DiffEnded
    /\ regression
    /\ envFailOnRegression = "false"
    /\ outputFile # NoReport
    /\ exitCode = <<1>>

\* comment.js has ended through the regression gate
GateEnded == cpc = "gateExit"

\* C6: the gate ends with status 1 exactly when diff.regression is true and
\* failOnRegression is true; failOnRegression is false only when
\* FAIL_ON_REGRESSION is "false", and then the regression is reported in the
\* posted comment and the status is 0.
C6_GateFailsIffRegressionAndFailOn ==
    GateEnded =>
        LET failOnRegression == envFailOnRegression # "false"
            posted           == Last(comments)
        IN  /\ commentExit \in {<<0>>, <<1>>}
            /\ commentExit = <<1>> <=> (outputFile[1].regression /\ failOnRegression)
            /\ posted.id = "posted"
            /\ posted.body.regressionsFound = outputFile[1].regression
            /\ (outputFile[1].regression /\ ~failOnRegression) =>
                  posted.body.reportOnly /\ commentExit = <<0>>

\* a regression reported in report-only mode
C6_Witness ==
    /\ GateEnded
    /\ outputFile[1].regression
    /\ envFailOnRegression = "false"
    /\ Last(comments).body.regressionsFound
    /\ commentExit = <<0>>

\* a regression failing the check with FAIL_ON_REGRESSION not set
C6_WitnessDefault ==
    /\ GateEnded
    /\ outputFile[1].regression
    /\ envFailOnRegression = "unset"
    /\ commentExit = <<1>>

----------------------------------------------------------------------------
(* Claims about the fingerprint *)

\* the occurrences of a scan document in the order buildFingerprintMap visits
\* them: page, then violation, then node
RECURSIVE occurrencesFrom(_, _, _, _)
occurrencesFrom(doc, k, j, i) ==
    IF k > Len(doc.pages) THEN <<>>
    ELSE LET page == doc.pages[k]
         IN  IF j > Len(page.violations) THEN occurrencesFrom(doc, k + 1, 1, 1)
             ELSE LET violation == page.violations[j]
                  IN  IF i > Len(violation.nodes) THEN occurrencesFrom(doc, k, j + 1, 1)
                      ELSE <<[id      |-> violation.id,
                              impact  |-> violation.impact,
                              urlPath |-> page.urlPath,
                              target  |-> violation.nodes[i].target,
                              html    |-> violation.nodes[i].html,
                              failureSummary |-> violation.nodes[i].failureSummary]>>
                           \o occurrencesFrom(doc, k, j, i + 1)

occurrencesOf(doc) == occurrencesFrom(doc, 1, 1, 1)

\* the markup without its insignificant formatting: runs of whitespace
\* collapsed, attributes in alphabetical order
canonicalMarkup(html) ==
    CASE html = "<img  src=a>"     -> "<img src=a>"
      [] html = "<img src=a id=b>" -> "<img id=b src=a>"
      [] OTHER                     -> html

sameMarkupContent(h1, h2) == canonicalMarkup(h1) = canonicalMarkup(h2)

sameButMarkup(o1, o2) ==
    /\ o1.id = o2.id
    /\ o1.impact = o2.impact
    /\ o1.urlPath = o2.urlPath
    /\ o1.target = o2.target
    /\ o1.html # o2.html

\* head is baseline with the markup of occurrence i replaced
markupReplacedAt(i) ==
    LET b == occurrencesOf(baselineFile)
        h == occurrencesOf(headFile)
    IN  /\ Len(b) = Len(h)
        /\ i \in DOMAIN b
        /\ sameButMarkup(b[i], h[i])
        /\ \A j \in DOMAIN b : j # i => b[j] = h[j]

\* a substantive change of markup
markupSwapAt(i) ==
    /\ markupReplacedAt(i)
    /\ ~sameMarkupContent(occurrencesOf(baselineFile)[i].html, occurrencesOf(headFile)[i].html)

\* a change of formatting only
formattingDriftAt(i) ==
    /\ markupReplacedAt(i)
    /\ sameMarkupContent(occurrencesOf(baselineFile)[i].html, occurrencesOf(headFile)[i].html)

MaxOccurrences == IF hasPages(baselineFile) THEN Len(occurrencesOf(baselineFile)) ELSE 0

\* C7 as stated: occurrences with the same rule, page and selector path and
\* substantively different markup have different fingerprints, and a diff of
\* two scans that differ only by such a swap has one resolved and one new
\* violation, regression = true, and the swapped occurrence not unchanged.
C7_MarkupSwapIsResolvedPlusNew ==
    AfterPartition =>
        \A i \in 1..MaxOccurrences :
            markupSwapAt(i) =>
                LET old == occurrencesOf(baselineFile)[i]
                    new == occurrencesOf(headFile)[i]
                IN  /\ fingerprintOf(old) # fingerprintOf(new)
                    /\ Len(newViolations) = 1
                    /\ Len(resolvedViolations) = 1
                    /\ regression
                    /\ fingerprintOf(new) \notin fingerprintsOf(unchangedViolations)

\* C7 as amended: occurrences with the same rule, page and selector path and
\* substantively different markup have different fingerprints; a diff of two
\* scans that differ only by such a swap has the old occurrence as its one
\* resolved and the new occurrence as its one new violation, regression =
\* true, provided the new markup is not already in the baseline index and the
\* old one not still in the head index under the same rule, page and path.
C7_MarkupSwapOfDistinctMarkup ==
    AfterPartition =>
        \A i \in 1..MaxOccurrences :
            markupSwapAt(i) =>
                LET old == occurrencesOf(baselineFile)[i]
                    new == occurrencesOf(headFile)[i]
                    inBaseline(o) == \E k \in DOMAIN baselineMap :
                                        /\ baselineMap[k].id = o.id
                                        /\ baselineMap[k].urlPath = o.urlPath
                                        /\ baselineMap[k].target = o.target
                                        /\ baselineMap[k].html = o.html
                    inHead(o)     == \E k \in DOMAIN headMap :
                                        /\ headMap[k].id = o.id
                                        /\ headMap[k].urlPath = o.urlPath
                                        /\ headMap[k].target = o.target
                                        /\ headMap[k].html = o.html
                IN  /\ fingerprintOf(old) # fingerprintOf(new)
                    /\ (~inBaseline(new) /\ ~inHead(old)) =>
                          /\ Len(newViolations) = 1
                          /\ newViolations[1].html = new.html
                          /\ Len(resolvedViolations) = 1
                          /\ resolvedViolations[1].html = old.html
                          /\ regression
                          /\ fingerprintOf(new) \notin fingerprintsOf(unchangedViolations)

\* a substantive swap beside an occurrence that did not change
C7_Witness ==
    /\ AfterPartition
    /\ \E i \in 1..MaxOccurrences : markupSwapAt(i)
    /\ Len(newViolations) = 1
    /\ Len(resolvedViolations) = 1
    /\ Len(unchangedViolations) = 1
    /\ regression

\* C8: an occurrence whose markup is re-serialized with other whitespace or
\* attribute order keeps its fingerprint, so it is unchanged, not new plus
\* resolved.
C8_FormattingDriftIsUnchanged ==
    AfterPartition =>
        \A i \in 1..MaxOccurrences :
            formattingDriftAt(i) =>
                /\ fingerprintOf(occurrencesOf(baselineFile)[i])
                      = fingerprintOf(occurrencesOf(headFile)[i])
                /\ newViolations = <<>>
                /\ resolvedViolations = <<>>

sameButPage(o1, o2) ==
    /\ o1.id = o2.id
    /\ o1.target = o2.target
    /\ o1.html = o2.html
    /\ o1.urlPath # o2.urlPath

sameOccurrence(o1, o2) ==
    /\ o1.id = o2.id
    /\ o1.target = o2.target
    /\ o1.html = o2.html
    /\ o1.urlPath = o2.urlPath

\* C9: occurrences that differ in the page path only have different
\* fingerprints and an index entry each, and one of them that is only in head
\* is a new violation even when the other one is in baseline.
C9_PageIsPartOfFingerprint ==
    AfterPartition =>
        LET b == Range(occurrencesOf(baselineFile))
            h == Range(occurrencesOf(headFile))
        IN  /\ \A o1 \in b \cup h, o2 \in b \cup h :
                  sameButPage(o1, o2) => fingerprintOf(o1) # fingerprintOf(o2)
            /\ \A o \in h : \E k \in DOMAIN headMap : sameOccurrence(headMap[k], o)
            /\ \A o \in b : \E k \in DOMAIN baselineMap : sameOccurrence(baselineMap[k], o)
            /\ \A o \in h :
                  (/\ \E o2 \in b : sameButPage(o, o2)
                   /\ ~\E o2 \in b : sameOccurrence(o, o2))
                  => \E k \in DOMAIN newViolations : sameOccurrence(newViolations[k], o)

\* the same broken element on two pages of head, on one page of baseline
C9_Witness ==
    /\ AfterPartition
    /\ Len(headMap) = 2
    /\ sameButPage(headMap[1], headMap[2])
    /\ Len(baselineMap) = 1
    /\ sameOccurrence(baselineMap[1], headMap[1])
    /\ Len(newViolations) = 1
    /\ sameOccurrence(newViolations[1], headMap[2])

\* the tuple the fingerprint encodes
fingerprintTuple(o) == <<o.id, o.urlPath, o.target, htmlHash(o.html)>>

\* C10: occurrences whose tuples (rule id, page path, selector path, markup
\* token) differ have different fingerprint strings.
C10_FingerprintInjective ==
    fpOut # <<>> =>
        (fingerprintTuple(fpIn[1]) # fingerprintTuple(fpIn[2]) => fpOut[1] # fpOut[2])

----------------------------------------------------------------------------
(* Claims about the index and the report *)

\* C12: the number of unchanged violations is the size of the head index less
\* the number of new violations, and the size of the baseline index less the
\* number of resolved violations.
C12_UnchangedCount ==
    AfterPartition =>
        /\ Len(unchangedViolations) + Len(newViolations) = Cardinality(mapKeys(headMap))
        /\ Len(unchangedViolations) + Len(resolvedViolations) = Cardinality(mapKeys(baselineMap))
        /\ outputFile # NoReport =>
              LET summary == outputFile[1].summary
              IN  /\ summary.unchanged + summary.newViolations = summary.headTotal
                  /\ summary.unchanged + summary.resolvedViolations = summary.baselineTotal

\* indexes of different sizes with new, resolved and unchanged violations
C12_Witness ==
    /\ pc = "written"
    /\ Len(headMap) # Len(baselineMap)
    /\ Len(unchangedViolations) > 0
    /\ Len(newViolations) + Len(resolvedViolations) > 0

\* C16: when the baseline or the head document has no pages, the run fails with
\* status 1 and leaves the output file as it was, whichever input it is.
C16_NoPagesNoReport ==
    [][(/\ pc = "start"
        /\ args = "ok"
        /\ (baselineFile = NoPagesDocument \/ headFile = NoPagesDocument))
       => /\ pc' = "threw"
          /\ exitCode' = <<1>>
          /\ outputFile' = outputFile]_vars

C16_Witness ==
    /\ pc = "threw"
    /\ hasPages(baselineFile)
    /\ Len(buildFingerprintMap(baselineFile)) > 0
    /\ headFile = NoPagesDocument
    /\ outputFile = NoReport
    /\ exitCode = <<1>>

\* the run ended on a detected regression
RegressionDetected == pc = "exited" /\ args = "ok" /\ regression

\* the run ended on missing arguments or on an input it could not read or index
InfrastructureFailure == (pc = "exited" /\ args = "missing") \/ pc = "threw"

distinctFingerprints(doc) == {fingerprintOf(o) : o \in Range(occurrencesOf(doc))}

\* C17: in every report written, summary.baselineTotal and summary.headTotal
\* are the sizes of the two indexes, which is the number of distinct
\* fingerprints of each scan and not its number of occurrences, and the three
\* other counts of the summary are the lengths of the three lists.
C17_SummaryCounts ==
    (args = "ok" /\ pc \in {"written", "exited"}) =>
        LET report == outputFile[1]
        IN  /\ report.summary.baselineTotal = Len(baselineMap)
            /\ report.summary.headTotal = Len(headMap)
            /\ report.summary.baselineTotal = Cardinality(distinctFingerprints(baselineFile))
            /\ report.summary.headTotal = Cardinality(distinctFingerprints(headFile))
            /\ report.summary.newViolations = Len(report.newViolations)
            /\ report.summary.resolvedViolations = Len(report.resolvedViolations)
            /\ report.summary.unchanged = Len(report.unchangedViolations)
            /\ report.newViolations = newViolations
            /\ report.resolvedViolations = resolvedViolations
            /\ report.unchangedViolations = unchangedViolations

C17_Witness ==
    /\ pc = "written"
    /\ outputFile[1].summary.headTotal < Len(occurrencesOf(headFile))
    /\ outputFile[1].summary.headTotal # outputFile[1].summary.baselineTotal
    /\ outputFile[1].summary.resolvedViolations > 0
    /\ outputFile[1].summary.unchanged > 0

\* the head index and the new violations once occurrence o is added to the head scan
headMapWith(o) == buildFingerprintMap(addOccurrence(headFile, o))

newViolationsWith(o) == newViolationsOf(baselineMap, headMapWith(o))

regressionWith(o) ==
    regressionOf(newViolationsWith(o), resolvedViolationsOf(baselineMap, headMapWith(o)))

\* C13 as stated: adding to the head scan any occurrence whose fingerprint is
\* not in the baseline index strictly increases the number of new violations
\* and makes regression true.
C13_AddedOccurrenceIncreasesNew ==
    AfterPartition =>
        \A o \in DiffOccurrences :
            fingerprintOf(o) \notin mapKeys(baselineMap) =>
                /\ Len(newViolationsWith(o)) > Len(newViolations)
                /\ regressionWith(o)

\* C13 amended: adding to the head scan an occurrence whose fingerprint is not
\* in the baseline index makes regression true and keeps every new violation
\* there was; the number of new violations grows by one when the fingerprint
\* is not in the head index either and stays the same when it already is.
C13_AddedOccurrenceNeverDecreasesNew ==
    AfterPartition =>
        \A o \in DiffOccurrences :
            fingerprintOf(o) \notin mapKeys(baselineMap) =>
                /\ regressionWith(o)
                /\ fingerprintsOf(newViolations) \subseteq fingerprintsOf(newViolationsWith(o))
                /\ fingerprintOf(o) \in fingerprintsOf(newViolationsWith(o))
                /\ fingerprintOf(o) \notin mapKeys(headMap) =>
                      Len(newViolationsWith(o)) = Len(newViolations) + 1
                /\ fingerprintOf(o) \in mapKeys(headMap) =>
                      Len(newViolationsWith(o)) = Len(newViolations)

C13_Witness ==
    /\ AfterPartition
    /\ ~regression
    /\ Len(headMap) > 0
    /\ \E o \in DiffOccurrences :
          /\ fingerprintOf(o) \notin mapKeys(baselineMap)
          /\ fingerprintOf(o) \notin mapKeys(headMap)
          /\ Len(newViolationsWith(o)) = 1
          /\ regressionWith(o)

AfterIndex == args = "ok" /\ pc \in {"indexed", "partitioned", "written", "exited"}

\* the first occurrence of the document, in page, violation, node order, that
\* has the fingerprint fp
firstOccurrence(doc, fp) ==
    LET occs == occurrencesOf(doc)
        i    == CHOOSE i \in DOMAIN occs :
                    /\ fingerprintOf(occs[i]) = fp
                    /\ \A j \in 1..(i - 1) : fingerprintOf(occs[j]) # fp
    IN  occs[i]

\* the record is the one built from the occurrence
recordOf(record, o) ==
    /\ record.id = o.id
    /\ record.impact = o.impact
    /\ record.urlPath = o.urlPath
    /\ record.target = o.target
    /\ record.html = o.html
    /\ record.failureSummary = o.failureSummary

indexKeepsFirst(doc, map) ==
    /\ mapKeys(map) = distinctFingerprints(doc)
    /\ \A i \in DOMAIN map :
          /\ occurrencesIn(map, map[i].fingerprint) = 1
          /\ recordOf(map[i], firstOccurrence(doc, map[i].fingerprint))

\* C11: when several occurrences of a scan have one fingerprint, the index
\* has exactly one record for it, and it is the record of the first of them
\* in page, violation, occurrence order.
C11_FirstOccurrenceKept ==
    AfterIndex =>
        /\ indexKeepsFirst(baselineFile, baselineMap)
        /\ indexKeepsFirst(headFile, headMap)

C11_Witness ==
    /\ pc = "indexed"
    /\ Len(headMap) = 1
    /\ LET occs == occurrencesOf(headFile)
       IN  /\ Len(occs) = 2
           /\ fingerprintOf(occs[1]) = fingerprintOf(occs[2])
           /\ occs[1].failureSummary # occs[2].failureSummary
           /\ headMap[1].failureSummary = occs[1].failureSummary

\* C14: unchangedViolations is the records of the head index whose fingerprint
\* is a key of the baseline index, once each, and each carries the severity,
\* description, markup and remediation summary of the head scan.
C14_UnchangedCarriesHead ==
    AfterPartition =>
        /\ fingerprintsOf(unchangedViolations) = mapKeys(headMap) \cap mapKeys(baselineMap)
        /\ \A i \in DOMAIN unchangedViolations :
              LET v == unchangedViolations[i]
              IN  /\ occurrencesIn(unchangedViolations, v.fingerprint) = 1
                  /\ v \in Range(headMap)
                  /\ recordOf(v, firstOccurrence(headFile, v.fingerprint))
                  /\ v.description = "Ensures " \o templateString(v.id)

C14_Witness ==
    /\ pc = "partitioned"
    /\ \E i \in DOMAIN unchangedViolations :
          LET v == unchangedViolations[i]
              b == firstOccurrence(baselineFile, v.fingerprint)
          IN  /\ v.impact # b.impact
              /\ v.impact = firstOccurrence(headFile, v.fingerprint).impact

\* C15 as stated: an occurrence without rule id or without page path creates no
\* index entry.
C15_MissingIdentityIsSkipped ==
    AfterIndex =>
        \A v \in Range(baselineMap) \cup Range(headMap) :
            v.id # undefined /\ v.urlPath # undefined

tallies(map, counts) ==
    /\ {"critical", "serious", "moderate", "minor"} \subseteq DOMAIN counts
    /\ \A i \in DOMAIN map : templateString(map[i].impact) \in DOMAIN counts
    /\ \A t \in DOMAIN counts :
          counts[t] = <<Cardinality({i \in DOMAIN map : templateString(map[i].impact) = t})>>

\* C18 as stated: the four buckets are always there, every record of an index
\* is counted in the bucket of its severity, known or not, and so the counts
\* add up to the size of the index.
C18_EveryRecordCounted ==
    (args = "ok" /\ pc \in {"written", "exited"}) =>
        /\ tallies(baselineMap, outputFile[1].impactDelta.baseline)
        /\ tallies(headMap, outputFile[1].impactDelta.head)

SecondRunEnded == firstRun # <<>> /\ pc \in {"exited", "threw"}

\* the report without its time of generation
withoutGeneratedAt(report) ==
    [k \in DOMAIN report \ {"generatedAt"} |-> report[k]]

recomputed(v) == fingerprint(v.id, v.urlPath, [target |-> v.target, html |-> v.html])

\* C25: the key of every index entry is the fingerprint stored in its record
\* and is the fingerprint computed again from the record's rule id, page path,
\* selector path and markup; the same holds for every record of the three
\* lists, each of which is the entry its fingerprint leads to.
C25_KeyIsRecomputedFingerprint ==
    AfterIndex =>
        /\ \A doc \in {baselineFile, headFile} :
              \A o \in Range(occurrencesOf(doc)) :
                  mapRecord(scanViolation(o), scanPage(o), scanNode(o),
                            fingerprintOf(o)).fingerprint = fingerprintOf(o)
        /\ \A v \in Range(baselineMap) \cup Range(headMap) :
              recomputed(v) = v.fingerprint
        /\ \A v \in Range(newViolations) \cup Range(unchangedViolations) :
              /\ recomputed(v) = v.fingerprint
              /\ \E i \in DOMAIN headMap :
                    headMap[i].fingerprint = v.fingerprint /\ headMap[i] = v
        /\ \A v \in Range(resolvedViolations) :
              /\ recomputed(v) = v.fingerprint
              /\ \E i \in DOMAIN baselineMap :
                    baselineMap[i].fingerprint = v.fingerprint /\ baselineMap[i] = v

C25_Witness ==
    /\ pc = "partitioned"
    /\ Len(newViolations) > 0
    /\ Len(resolvedViolations) > 0
    /\ Len(unchangedViolations) > 0
    /\ recomputed(newViolations[1]) = headMap[Len(headMap)].fingerprint

\* C29: an occurrence of head that has the rule id, page path, selector path
\* and markup of an occurrence of baseline, whatever their severity,
\* description, link, tags and remediation summary, is unchanged and not new,
\* and a regression always comes with a head occurrence that has no such
\* counterpart in baseline; the severity counts of the two sides may differ.
C29_MetadataIsNotIdentity ==
    AfterPartition =>
        LET b == Range(occurrencesOf(baselineFile))
            h == Range(occurrencesOf(headFile))
        IN  /\ \A o \in h :
                  (\E p \in b : sameOccurrence(o, p)) =>
                      /\ fingerprintOf(o) \in fingerprintsOf(unchangedViolations)
                      /\ fingerprintOf(o) \notin fingerprintsOf(newViolations)
            /\ regression => \E o \in h : \A p \in b : ~sameOccurrence(o, p)

C29_Witness ==
    /\ pc = "written"
    /\ ~regression
    /\ Len(unchangedViolations) > 0
    /\ Len(newViolations) = 0
    /\ Len(resolvedViolations) = 0
    /\ outputFile[1].impactDelta.baseline # outputFile[1].impactDelta.head
    /\ \E i \in DOMAIN unchangedViolations :
          unchangedViolations[i].failureSummary
              # firstOccurrence(baselineFile, unchangedViolations[i].fingerprint).failureSummary

----------------------------------------------------------------------------
(* Claims about comment.js *)

posted(cs) == {i \in DOMAIN cs : cs[i].id = "posted"}

a11yComments(cs) == {i \in DOMAIN cs : isA11yComment(cs[i])}

\* C26: the new comment is on the pull request only once every listed comment
\* has been visited and the ones with the header deleted, the gate is reached
\* only with the new comment posted, and a run that ends through the gate
\* leaves exactly one comment with the header, the new one.
C26_PostAfterDeletionGateAfterPost ==
    /\ posted(comments) # {} =>
          /\ cpc \in {"gate", "gateExit"}
          /\ listed = <<>>
    /\ cpc \in {"gate", "gateExit"} =>
          /\ Cardinality(posted(comments)) = 1
          /\ a11yComments(comments) = posted(comments)
    /\ commentExit = <<0>> => cpc = "gateExit"
    /\ cpc = "gateExit" =>
          /\ commentExit \in {<<0>>, <<1>>}
          /\ a11yComments(comments) = {Len(comments)}

C26_Witness ==
    /\ cpc = "gateExit"
    /\ commentExit = <<1>>
    /\ Len(comments) = 2
    /\ comments[1].id = "c2"
    /\ ~isA11yComment(comments[1])
    /\ comments[2].id = "posted"

----------------------------------------------------------------------------
(* Claims about scan.js *)

\* the positions of urls the loop has been through
visited == 1..(Len(urls) - Len(todo))

\* the visited positions whose scan succeeded, and those whose scan threw, in order
scanned == SelectSeq([i \in visited |-> i], LAMBDA i : engine[i].ok)

failed == SelectSeq([i \in visited |-> i], LAMBDA i : ~engine[i].ok)

LoopDone == spc \in {"written", "exited"}

\* C21: a URL path whose scan fails is recorded in errors with its message,
\* every later path is still visited, and the output file holds the results
\* of all the pages that were scanned.
C21_FailedPageDoesNotStopScan ==
    /\ spc \in {"loop", "written", "exited"} =>
          /\ Len(errors) = Len(failed)
          /\ \A k \in DOMAIN errors :
                errors[k] = [urlPath |-> urls[failed[k]], error |-> engine[failed[k]].message]
    /\ LoopDone =>
          /\ visited = DOMAIN urls
          /\ Len(scanFile[1].pages) = Len(scanned)
          /\ \A k \in DOMAIN scanned : scanFile[1].pages[k].urlPath = urls[scanned[k]]
          /\ scanFile[1].errors = errors

C21_Witness ==
    /\ spc = "written"
    /\ Len(urls) = 2
    /\ ~engine[1].ok
    /\ engine[2].ok
    /\ Len(scanFile[1].errors) = 1
    /\ Len(scanFile[1].pages) = 1
    /\ scanFile[1].pages[1].urlPath = urls[2]
    /\ Len(scanFile[1].pages[1].violations) > 0

\* the tiers at or above a minimum tier
tiersFrom(minimum) ==
    CASE minimum = "minor"    -> {"minor", "moderate", "serious", "critical"}
      [] minimum = "moderate" -> {"moderate", "serious", "critical"}
      [] minimum = "serious"  -> {"serious", "critical"}
      [] minimum = "critical" -> {"critical"}

configuredMinimum == IF impactLevel = "" THEN "moderate" ELSE impactLevel

\* C22: with a tier as the configured minimum (moderate when none is given),
\* the violations recorded for a scanned page are the violations the rule
\* engine reported whose tier is at or above the minimum, in the order
\* reported: none below it is recorded and none at or above it is dropped.
C22_RecordedAreAtOrAboveMinimum ==
    (spc \in {"loop", "written", "exited"}
        /\ configuredMinimum \in {"minor", "moderate", "serious", "critical"}) =>
        /\ Len(pages) = Len(scanned)
        /\ \A k \in DOMAIN pages :
              pages[k].violations =
                  SelectSeq(engine[scanned[k]].violations,
                            LAMBDA v : v.impact \in tiersFrom(configuredMinimum))

C22_Witness ==
    /\ spc = "written"
    /\ impactLevel = ""
    /\ \E k \in DOMAIN pages :
          /\ Len(engine[scanned[k]].violations) = 2
          /\ engine[scanned[k]].violations[1].impact = "minor"
          /\ Len(pages[k].violations) = 1
          /\ pages[k].violations[1].impact = "critical"
          /\ scanFile[1].pages[k] = pages[k]

\* the scan output without its page entry k
withoutPage(output, k) ==
    [pages |-> [i \in 1..(Len(output.pages) - 1) |->
                   IF i < k THEN output.pages[i] ELSE output.pages[i + 1]]]

\* C23: a page that was scanned and has no violation, or none left after the
\* severity filter, has its entry in the scan output all the same, and the
\* index built from the output has nothing from it.
C23_CleanPageIsRecorded ==
    LoopDone =>
        /\ Len(scanFile[1].pages) = Len(scanned)
        /\ \A k \in DOMAIN scanFile[1].pages :
              LET page == scanFile[1].pages[k]
              IN  /\ page.urlPath = urls[scanned[k]]
                  /\ page.violations = <<>> =>
                        /\ buildFingerprintMap([pages |-> <<page>>]) = <<>>
                        /\ buildFingerprintMap(scanFile[1])
                               = buildFingerprintMap(withoutPage(scanFile[1], k))

C23_Witness ==
    /\ spc = "written"
    /\ Len(scanFile[1].pages) = 2
    /\ scanFile[1].pages[1].violations = <<>>
    /\ engine[1].violations # <<>>
    /\ scanFile[1].pages[2].violations # <<>>
    /\ Len(buildFingerprintMap(scanFile[1])) = Len(scanFile[1].pages[2].violations)

\* C24: a run that gets through the loop writes the output file, with or
\* without failed pages, before it exits, and then exits with status 1 when
\* a URL path failed to scan and with status 0 when none did.
C24_WriteThenExitOnErrors ==
    /\ spc = "written" => (scanFile # <<>> /\ scanExit = <<>>)
    /\ spc = "exited" =>
          /\ scanFile # <<>>
          /\ scanFile[1].pages = pages
          /\ scanFile[1].errors = errors
          /\ (scanExit = <<1>>) = (\E i \in DOMAIN urls : ~engine[i].ok)
          /\ (scanExit = <<0>>) = (\A i \in DOMAIN urls : engine[i].ok)
    /\ scanExit = <<0>> => spc = "exited"
    /\ (scanExit = <<1>> /\ spc # "fatal") => spc = "exited"

C24_Witness ==
    /\ spc = "exited"
    /\ scanExit = <<1>>
    /\ Len(scanFile[1].pages) > 0
    /\ Len(scanFile[1].errors) > 0

\* C30: when the loop is over, every entry of urls has given one entry of
\* pages or one entry of errors and not both, so the two lists have as many
\* entries as urls, and pages and errors follow the order of urls.
C30_OneEntryPerUrl ==
    (spc = "loop" /\ todo = <<>>) \/ LoopDone =>
        /\ Len(pages) + Len(errors) = Len(urls)
        /\ Len(pages) = Len(scanned)
        /\ Len(errors) = Len(failed)
        /\ \A k \in DOMAIN pages : pages[k].urlPath = urls[scanned[k]]
        /\ \A k \in DOMAIN errors : errors[k].urlPath = urls[failed[k]]
        /\ \A k, l \in DOMAIN pages : k < l => scanned[k] < scanned[l]

C30_Witness ==
    /\ spc = "loop"
    /\ todo = <<>>
    /\ Len(urls) = 2
    /\ urls[1] = urls[2]
    /\ Len(pages) = 1
    /\ Len(errors) = 1

----------------------------------------------------------------------------
(* Claims about auto-fix.js *)

\* a comment the auto-fixer produced: it carries the heading of
\* buildFixSummaryComment
producedByAutoFixer(comment) ==
    includes(comment.body, "AI Accessibility Auto-Fix Summary")

\* C27: every comment the cleanup of the auto-fixer removes from the pull
\* request is a summary comment of the auto-fixer; a comment that the
\* auto-fixer did not produce is never deleted.
C27_OnlyAutoFixCommentsDeleted ==
    [][\A c \in Range(comments) :
          c \notin Range(comments') => producedByAutoFixer(c)]_vars

\* the page paths that have a new violation in the diff that was read
pathsWithNewViolation ==
    IF fixDiff = <<>> THEN {}
    ELSE {fixDiff[1].newViolations[i].urlPath : i \in DOMAIN fixDiff[1].newViolations}

\* the summary comment of this run is on the pull request
summaryPosted(cs) == \E i \in DOMAIN cs : cs[i].id = "posted"

\* C28: a project file changes only in an iteration for a page path that has
\* a new violation in the diff, it is the file of that path, and the AI call
\* for it succeeded (the file is recorded in fixedFiles); an iteration whose
\* AI call failed leaves every file as it was and goes on with the remaining
\* pages; the summary comment is posted only when a file was fixed.
C28_WriteOnlyAfterSuccessfulFix ==
    [][/\ projectFiles' # projectFiles =>
            /\ fxpc = "fixing" /\ pagesToFix # <<>>
            /\ Head(pagesToFix) \in pathsWithNewViolation
            /\ LET filePath == resolveUrlToFile(Head(pagesToFix), DOMAIN projectFiles)
               IN  /\ filePath # <<>>
                   /\ \A f \in DOMAIN projectFiles :
                          f # filePath[1] => projectFiles'[f] = projectFiles[f]
                   /\ Len(fixedFiles') = Len(fixedFiles) + 1
                   /\ Last(fixedFiles').filePath = filePath[1]
       /\ (fxpc = "fixing" /\ pagesToFix # <<>> /\ fixedFiles' = fixedFiles) =>
            /\ projectFiles' = projectFiles
            /\ pagesToFix' = Tail(pagesToFix)
            /\ fxpc' = "fixing"
       /\ (summaryPosted(comments') /\ ~summaryPosted(comments)) => fixedFiles # <<>>
       /\ (fixDiff' # <<>> /\ pathsWithNewViolation' = {}) => fxpc' \notin {"fixing", "listing"}
      ]_vars

\* a run over two pages that have files: the AI call for "/" failed, the
\* file of "/about" was fixed afterwards and the summary was posted
C28_Witness ==
    /\ fxpc = "done"
    /\ fixDiff # <<>>
    /\ pagesToFixOf(fixDiff[1]) = <<"/", "/about">>
    /\ skippedUrls = <<>>
    /\ Len(fixedFiles) = 1
    /\ fixedFiles[1].filePath = "about.html"
    /\ projectFiles["index.html"] = "<html>index.html</html>"
    /\ projectFiles["about.html"] # "<html>about.html</html>"
    /\ summaryPosted(comments)

====
